---- MODULE Spec2Model ----
(***************************************************************************)
(* Model of build.py: build_library(output_path, repo_paths), the          *)
(* incremental build of one shared library from the parser repositories    *)
(* under vendor/.  The file system is reduced to what build_library reads  *)
(* and writes: modification times of the build script, of each module's    *)
(* src/parser.c, src/scanner.cc and src/scanner.c, and of the library.     *)
(***************************************************************************)
EXTENDS Integers, Sequences, FiniteSets

\* ---- bounds of the model ------------------------------------------------
MaxTime == 2         \* last value of the file system clock

\* ---- vocabulary ----------------------------------------------------------
\* module roots (directories under vendor/) and the lists build_library is
\* called with: with every layout of A and B allowed, these cover the empty
\* list, one module, the same module twice and two different modules
Modules == {"A", "B"}
RepoLists == {<<>>, <<"A">>, <<"A", "A">>, <<"A", "B">>}
FileNames == {"parser.c", "scanner.cc", "scanner.c"}
SourceFiles == Modules \X FileNames
Absent == -1         \* marks a path that does not exist
Script == <<"", "build.py">>
NA == <<"", "na">>          \* value of since: no successful build to compare with
Clean == <<"", "clean">>    \* value of since: no input written since that build

VARIABLES
    clock,          \* file system time; a write stamps the file with it
    script_mtime,   \* mtime of __file__
    mtime,          \* SourceFiles -> mtime, or Absent
    artifact,       \* mtime of the library at output_path, or Absent
    pc,             \* position of the run
    repo_paths,     \* the argument of build_library
    platform,       \* the host as the build pass sees it: what system() answers
    output_mtime,   \* local of build_library
    cpp,            \* local of build_library
    source_paths,   \* local of build_library
    compiler,       \* local of build_library: "unset" or the compiler obtained
    out_dir,        \* TRUE while the TemporaryDirectory exists
    tmp_objects,    \* object files inside out_dir
    object_paths,   \* local of build_library
    compile_calls,  \* compiler.compile invocations of this run, in order
    link_calls,     \* compiler.link_shared_object invocations of this run
    result,         \* "none", "True", "False" or the exception raised
    since           \* the inputs since the last successful build: NA, Clean
                    \* or the one file written

vars == <<clock, script_mtime, mtime, artifact, pc, repo_paths, platform,
          output_mtime, cpp, source_paths, compiler, out_dir, tmp_objects,
          object_paths, compile_calls, link_calls, result, since>>

fsVars == <<clock, script_mtime, mtime>>
runVars == <<output_mtime, cpp, source_paths, compiler, out_dir, tmp_objects,
             object_paths, compile_calls, link_calls, result>>

Terminal == {"UpToDate", "Done", "Failed"}

\* ---- helpers --------------------------------------------------------------
Range(s) == {s[i] : i \in 1..Len(s)}

\* path.join(src_path, ...), lines 63-68
Parser(m) == <<m, "parser.c">>
ScannerCc(m) == <<m, "scanner.cc">>
ScannerC(m) == <<m, "scanner.c">>

\* path.exists(p)
exists(p) == mtime[p] # Absent

\* path.getmtime(p) of a path that exists
getmtime(p) == IF p = Script THEN script_mtime ELSE mtime[p]

\* max(source_mtimes)
Max(S) == CHOOSE x \in S : \A y \in S : y <= x

\* path.dirname(source_path): the module's src directory
dirname(p) == <<p[1], "src">>

\* the object file distutils derives from a source path (extension replaced)
ObjectOf(p) == <<p[1], IF p[2] = "parser.c" THEN "parser.o" ELSE "scanner.o">>

\* ---- discovery (lines 59-68) ---------------------------------------------
\* mutant of UnitsOf: the C form of the scanner is looked for first
UnitsOf_cFirst(repo_path) ==
    <<Parser(repo_path)>> \o
    (IF exists(ScannerC(repo_path)) THEN <<ScannerC(repo_path)>>
     ELSE IF exists(ScannerCc(repo_path)) THEN <<ScannerCc(repo_path)>>
     ELSE <<>>)

\* mutant of UnitsOf: two separate ifs, both scanner forms are appended
UnitsOf_bothScanners(repo_path) ==
    <<Parser(repo_path)>> \o
    (IF exists(ScannerCc(repo_path)) THEN <<ScannerCc(repo_path)>> ELSE <<>>) \o
    (IF exists(ScannerC(repo_path)) THEN <<ScannerC(repo_path)>> ELSE <<>>)

\* the paths one iteration of the loop appends for repo_path
UnitsOf(repo_path) ==
    <<Parser(repo_path)>> \o
    (IF exists(ScannerCc(repo_path)) THEN <<ScannerCc(repo_path)>>
     ELSE IF exists(ScannerC(repo_path)) THEN <<ScannerC(repo_path)>>
     ELSE <<>>)

RECURSIVE Discover(_)
Discover(paths) ==
    IF paths = <<>> THEN <<>>
    ELSE UnitsOf(Head(paths)) \o Discover(Tail(paths))

\* mutant of CppOf: every iteration assigns cpp, the last one decides
CppOf_last(paths) == paths # <<>> /\ exists(ScannerCc(paths[Len(paths)]))

\* cpp after the loop: set once any iteration finds scanner.cc
CppOf(paths) == \E i \in 1..Len(paths) : exists(ScannerCc(paths[i]))

\* ---- staleness (lines 69-72) ---------------------------------------------
\* mutant of source_mtimes: the scanners are left out of the list
source_mtimes_parsersOnly(paths) ==
    {getmtime(Script)} \cup {getmtime(p) : p \in {q \in Range(paths) : q[2] = "parser.c"}}

\* source_mtimes, as a set (only its maximum is used)
source_mtimes(paths) == {getmtime(Script)} \cup {getmtime(p) : p \in Range(paths)}

\* mutant of UpToDateCond: equal times count as stale
UpToDateCond_strict(paths, out) == Max(source_mtimes(paths)) < out

\* the condition of `if max(source_mtimes) <= output_mtime: return False`
UpToDateCond(paths, out) == Max(source_mtimes(paths)) <= out

\* ---- compile flags (lines 90-97) -----------------------------------------
endswith_c(p) == p[2] \in {"parser.c", "scanner.c"}

\* mutant of Flags: the test is '.c' in source_path, true of scanner.cc too
Flags_contains(p, plat) ==
    IF plat = "Windows" THEN <<>>
    ELSE <<"-fPIC", "-std=c11">>

Flags(p, plat) ==
    IF plat = "Windows" THEN <<>>
    ELSE <<"-fPIC", IF endswith_c(p) THEN "-std=c11" ELSE "-std=c++11">>

\* ---- initial state --------------------------------------------------------
NoRun ==
    /\ output_mtime = 0
    /\ cpp = FALSE
    /\ source_paths = <<>>
    /\ compiler = "unset"
    /\ out_dir = FALSE
    /\ tmp_objects = {}
    /\ object_paths = <<>>
    /\ compile_calls = <<>>
    /\ link_calls = <<>>
    /\ result = "none"

Init ==
    /\ clock = 0
    /\ script_mtime = 0
    /\ repo_paths \in RepoLists
    /\ mtime \in [SourceFiles -> {Absent, 0}]
    \* directories outside repo_paths are never read
    /\ \A p \in SourceFiles : p[1] \notin Range(repo_paths) => mtime[p] = Absent
    \* a module root without parser.c holds no source at all
    /\ \A m \in Modules :
          ~exists(Parser(m)) => ~exists(ScannerCc(m)) /\ ~exists(ScannerC(m))
    \* at most one module root holds both scanner forms
    /\ Cardinality({m \in Modules : exists(ScannerCc(m)) /\ exists(ScannerC(m))}) <= 1
    /\ artifact \in {Absent, 0}
    /\ pc = "Idle"
    /\ platform = "unset"
    /\ NoRun
    /\ since = NA

\* ---- the environment between runs ---------------------------------------
\* time passes; the run itself reads the clock only when the linker writes
\* the library, so time that passes during a run is time that passed before it
Tick ==
    /\ pc = "Idle"
    /\ clock < MaxTime
    /\ clock' = clock + 1
    /\ UNCHANGED <<script_mtime, mtime, artifact, pc, repo_paths, platform, since>>
    /\ UNCHANGED runVars

\* one input is written (touched): its mtime becomes the current time
Touched(f) == IF since = Clean THEN f ELSE NA

TouchSource(f) ==
    /\ pc = "Idle"
    /\ exists(f)
    /\ mtime' = [mtime EXCEPT ![f] = clock]
    /\ since' = Touched(f)
    /\ UNCHANGED <<clock, script_mtime, artifact, pc, repo_paths, platform>>
    /\ UNCHANGED runVars

TouchScript ==
    /\ pc = "Idle"
    /\ script_mtime' = clock
    /\ since' = Touched(Script)
    /\ UNCHANGED <<clock, mtime, artifact, pc, repo_paths, platform>>
    /\ UNCHANGED runVars

\* ---- build_library -------------------------------------------------------
\* mutant of Call: the library's mtime is not read
Call_noStat ==
    /\ pc = "Idle"
    /\ pc' = "Discovering"
    /\ output_mtime' = 0
    /\ UNCHANGED <<cpp, source_paths, compiler, out_dir, tmp_objects,
                   object_paths, compile_calls, link_calls, result>>
    /\ UNCHANGED <<fsVars, artifact, repo_paths, platform, since>>

\* line 54: the call binds the arguments and reads the library's mtime
Call ==
    /\ pc = "Idle"
    /\ pc' = "Discovering"
    /\ output_mtime' = (IF artifact # Absent THEN artifact ELSE 0)
    /\ UNCHANGED <<cpp, source_paths, compiler, out_dir, tmp_objects,
                   object_paths, compile_calls, link_calls, result>>
    /\ UNCHANGED <<fsVars, artifact, repo_paths, platform, since>>

\* mutant of RaiseEmpty: the empty list is not checked
RaiseEmpty_unchecked ==
    /\ pc = "Discovering"
    /\ repo_paths = <<>>
    /\ pc' = "CheckingStaleness"
    /\ UNCHANGED runVars
    /\ UNCHANGED <<fsVars, artifact, repo_paths, platform, since>>

\* lines 56-57: raise ValueError
RaiseEmpty ==
    /\ pc = "Discovering"
    /\ repo_paths = <<>>
    /\ pc' = "Failed"
    /\ result' = "ValueError"
    /\ UNCHANGED <<output_mtime, cpp, source_paths, compiler, out_dir,
                   tmp_objects, object_paths, compile_calls, link_calls>>
    /\ UNCHANGED <<fsVars, artifact, repo_paths, platform, since>>

\* lines 59-68: the discovery loop
DiscoverUnits ==
    /\ pc = "Discovering"
    /\ repo_paths # <<>>
    /\ cpp' = CppOf(repo_paths)
    /\ source_paths' = Discover(repo_paths)
    /\ pc' = "CheckingStaleness"
    /\ UNCHANGED <<output_mtime, compiler, out_dir, tmp_objects, object_paths,
                   compile_calls, link_calls, result>>
    /\ UNCHANGED <<fsVars, artifact, repo_paths, platform, since>>

\* mutant of RaiseMissing: paths that do not exist are dropped
RaiseMissing_skip ==
    /\ pc = "CheckingStaleness"
    /\ \E p \in Range(source_paths) : ~exists(p)
    /\ source_paths' = SelectSeq(source_paths, exists)
    /\ UNCHANGED <<pc, output_mtime, cpp, compiler, out_dir, tmp_objects,
                   object_paths, compile_calls, link_calls, result>>
    /\ UNCHANGED <<fsVars, artifact, repo_paths, platform, since>>

\* line 69: path.getmtime of a path that does not exist raises
RaiseMissing ==
    /\ pc = "CheckingStaleness"
    /\ \E p \in Range(source_paths) : ~exists(p)
    /\ pc' = "Failed"
    /\ result' = "FileNotFoundError"
    /\ UNCHANGED <<output_mtime, cpp, source_paths, compiler, out_dir,
                   tmp_objects, object_paths, compile_calls, link_calls>>
    /\ UNCHANGED <<fsVars, artifact, repo_paths, platform, since>>

\* mutant of ReturnFalse: distutils is imported and the compiler made at
\* the top of the function
ReturnFalse_eager ==
    /\ pc = "CheckingStaleness"
    /\ \A p \in Range(source_paths) : exists(p)
    /\ UpToDateCond(source_paths, output_mtime)
    /\ pc' = "UpToDate"
    /\ result' = "False"
    /\ compiler' = "new_compiler"
    /\ UNCHANGED <<output_mtime, cpp, source_paths, out_dir,
                   tmp_objects, object_paths, compile_calls, link_calls>>
    /\ UNCHANGED <<fsVars, artifact, repo_paths, platform, since>>

\* lines 69-72: return False
ReturnFalse ==
    /\ pc = "CheckingStaleness"
    /\ \A p \in Range(source_paths) : exists(p)
    /\ UpToDateCond(source_paths, output_mtime)
    /\ pc' = "UpToDate"
    /\ result' = "False"
    /\ UNCHANGED <<output_mtime, cpp, source_paths, compiler, out_dir,
                   tmp_objects, object_paths, compile_calls, link_calls>>
    /\ UNCHANGED <<fsVars, artifact, repo_paths, platform, since>>

\* mutant of GoOn: the temporary directory is entered before the import
GoOn_tmpFirst ==
    /\ pc = "CheckingStaleness"
    /\ \A p \in Range(source_paths) : exists(p)
    /\ ~UpToDateCond(source_paths, output_mtime)
    /\ pc' = "Toolchain"
    /\ out_dir' = TRUE
    /\ UNCHANGED <<output_mtime, cpp, source_paths, compiler, tmp_objects,
                   object_paths, compile_calls, link_calls, result>>
    /\ UNCHANGED <<fsVars, artifact, repo_paths, platform, since>>

\* lines 69-71: the condition is false, the function goes on
GoOn ==
    /\ pc = "CheckingStaleness"
    /\ \A p \in Range(source_paths) : exists(p)
    /\ ~UpToDateCond(source_paths, output_mtime)
    /\ pc' = "Toolchain"
    /\ UNCHANGED runVars
    /\ UNCHANGED <<fsVars, artifact, repo_paths, platform, since>>

\* mutant of RaiseNoToolchain: the ImportError is swallowed, False returned
RaiseNoToolchain_returnFalse ==
    /\ pc = "Toolchain"
    /\ pc' = "Failed"
    /\ result' = "False"
    /\ UNCHANGED <<output_mtime, cpp, source_paths, compiler, out_dir,
                   tmp_objects, object_paths, compile_calls, link_calls>>
    /\ UNCHANGED <<fsVars, artifact, repo_paths, platform, since>>

\* lines 75-81: the import of distutils fails
RaiseNoToolchain ==
    /\ pc = "Toolchain"
    /\ pc' = "Failed"
    /\ result' = "RuntimeError"
    /\ UNCHANGED <<output_mtime, cpp, source_paths, compiler, out_dir,
                   tmp_objects, object_paths, compile_calls, link_calls>>
    /\ UNCHANGED <<fsVars, artifact, repo_paths, platform, since>>

\* mutant of EnterTmp: the old library is removed before the build
EnterTmp_unlink ==
    /\ pc = "Toolchain"
    /\ platform' \in {"Windows", "Linux"}
    /\ compiler' = "new_compiler"
    /\ out_dir' = TRUE
    /\ tmp_objects' = {}
    /\ object_paths' = <<>>
    /\ artifact' = Absent
    /\ pc' = "Compiling"
    /\ UNCHANGED <<output_mtime, cpp, source_paths, compile_calls, link_calls, result>>
    /\ UNCHANGED <<fsVars, repo_paths, since>>

\* lines 83-88: new_compiler() gives the host's compiler, then the
\* TemporaryDirectory is entered
EnterTmp ==
    /\ pc = "Toolchain"
    /\ platform' \in {"Windows", "Linux"}
    /\ compiler' = "new_compiler"
    /\ out_dir' = TRUE
    /\ tmp_objects' = {}
    /\ object_paths' = <<>>
    /\ pc' = "Compiling"
    /\ UNCHANGED <<output_mtime, cpp, source_paths, compile_calls, link_calls, result>>
    /\ UNCHANGED <<fsVars, artifact, repo_paths, since>>

\* the source path the loop of line 89 is at
NextSource == source_paths[Len(object_paths) + 1]

\* mutant of CompileCall: every module's directory is on the include path
CompileCall_allDirs(p) ==
    [source |-> p,
     include_dirs |-> [i \in 1..Len(source_paths) |-> dirname(source_paths[i])],
     extra_preargs |-> Flags(p, platform)]

\* the arguments of compiler.compile, lines 99-104
CompileCall(p) ==
    [source |-> p, include_dirs |-> <<dirname(p)>>, extra_preargs |-> Flags(p, platform)]

\* mutant of CompileOk: the object is put at the front of the list
CompileOk_prepend ==
    /\ pc = "Compiling"
    /\ compile_calls' = Append(compile_calls, CompileCall(NextSource))
    /\ tmp_objects' = tmp_objects \cup {ObjectOf(NextSource)}
    /\ object_paths' = <<ObjectOf(NextSource)>> \o object_paths
    /\ pc' = (IF Len(object_paths') = Len(source_paths) THEN "Linking" ELSE "Compiling")
    /\ UNCHANGED <<output_mtime, cpp, source_paths, compiler, out_dir, link_calls, result>>
    /\ UNCHANGED <<fsVars, artifact, repo_paths, platform, since>>

\* lines 89-105: one iteration, the compiler exits with 0
CompileOk ==
    /\ pc = "Compiling"
    /\ compile_calls' = Append(compile_calls, CompileCall(NextSource))
    /\ tmp_objects' = tmp_objects \cup {ObjectOf(NextSource)}
    /\ object_paths' = Append(object_paths, ObjectOf(NextSource))
    /\ pc' = (IF Len(object_paths') = Len(source_paths) THEN "Linking" ELSE "Compiling")
    /\ UNCHANGED <<output_mtime, cpp, source_paths, compiler, out_dir, link_calls, result>>
    /\ UNCHANGED <<fsVars, artifact, repo_paths, platform, since>>

\* mutant of CompileFail: the error is recorded and the loop goes on
CompileFail_continue ==
    /\ pc = "Compiling"
    /\ compile_calls' = Append(compile_calls, CompileCall(NextSource))
    /\ object_paths' = Append(object_paths, ObjectOf(NextSource))
    /\ pc' = (IF Len(object_paths') = Len(source_paths) THEN "Linking" ELSE "Compiling")
    /\ result' = "CompileError"
    /\ UNCHANGED <<output_mtime, cpp, source_paths, compiler, out_dir, tmp_objects, link_calls>>
    /\ UNCHANGED <<fsVars, artifact, repo_paths, platform, since>>

\* mutant of CompileFail: the temporary directory is left behind
CompileFail_noCleanup ==
    /\ pc = "Compiling"
    /\ compile_calls' = Append(compile_calls, CompileCall(NextSource))
    /\ pc' = "Failed"
    /\ result' = "CompileError"
    /\ UNCHANGED <<output_mtime, cpp, source_paths, compiler, out_dir, tmp_objects,
                   object_paths, link_calls>>
    /\ UNCHANGED <<fsVars, artifact, repo_paths, platform, since>>

\* lines 89-105: compiler.compile raises; leaving the with block removes
\* the temporary directory
CompileFail ==
    /\ pc = "Compiling"
    /\ compile_calls' = Append(compile_calls, CompileCall(NextSource))
    /\ out_dir' = FALSE
    /\ tmp_objects' = {}
    /\ pc' = "Failed"
    /\ result' = "CompileError"
    /\ UNCHANGED <<output_mtime, cpp, source_paths, compiler, object_paths, link_calls>>
    /\ UNCHANGED <<fsVars, artifact, repo_paths, platform, since>>

\* the arguments of compiler.link_shared_object, lines 106-110
LinkCall == [objects |-> object_paths, target_lang |-> IF cpp THEN "c++" ELSE "c"]

\* mutant of LinkOk: the library is linked to a path other than output_path
LinkOk_elsewhere ==
    /\ pc = "Linking"
    /\ link_calls' = Append(link_calls, LinkCall)
    /\ out_dir' = FALSE
    /\ tmp_objects' = {}
    /\ pc' = "Done"
    /\ result' = "True"
    /\ UNCHANGED <<output_mtime, cpp, source_paths, compiler, object_paths, compile_calls>>
    /\ UNCHANGED <<fsVars, artifact, repo_paths, platform, since>>

\* lines 106-111: the link succeeds and writes the library; return True
LinkOk ==
    /\ pc = "Linking"
    /\ link_calls' = Append(link_calls, LinkCall)
    /\ artifact' = clock
    /\ out_dir' = FALSE
    /\ tmp_objects' = {}
    /\ pc' = "Done"
    /\ result' = "True"
    /\ UNCHANGED <<output_mtime, cpp, source_paths, compiler, object_paths, compile_calls>>
    /\ UNCHANGED <<fsVars, repo_paths, platform, since>>

\* mutant of LinkFail: the failed link is tried again
LinkFail_retry ==
    /\ pc = "Linking"
    /\ link_calls' = Append(link_calls, LinkCall)
    /\ artifact' \in {artifact, Absent, clock}
    /\ UNCHANGED <<pc, output_mtime, cpp, source_paths, compiler, out_dir, tmp_objects,
                   object_paths, compile_calls, result>>
    /\ UNCHANGED <<fsVars, repo_paths, platform, since>>

\* lines 106-110: the link raises; the linker may have left the library as
\* it was, removed it, or written part of it
LinkFail ==
    /\ pc = "Linking"
    /\ link_calls' = Append(link_calls, LinkCall)
    /\ artifact' \in {artifact, Absent, clock}
    /\ out_dir' = FALSE
    /\ tmp_objects' = {}
    /\ pc' = "Failed"
    /\ result' = "LinkError"
    /\ UNCHANGED <<output_mtime, cpp, source_paths, compiler, object_paths, compile_calls>>
    /\ UNCHANGED <<fsVars, repo_paths, platform, since>>

\* the process ends; the next invocation of the script starts a new run
Exit ==
    /\ pc \in Terminal
    /\ pc' = "Idle"
    /\ platform' = "unset"
    /\ since' = (IF pc = "Done" THEN Clean ELSE IF pc = "UpToDate" THEN since ELSE NA)
    /\ output_mtime' = 0
    /\ cpp' = FALSE
    /\ source_paths' = <<>>
    /\ compiler' = "unset"
    /\ out_dir' = FALSE
    /\ tmp_objects' = {}
    /\ object_paths' = <<>>
    /\ compile_calls' = <<>>
    /\ link_calls' = <<>>
    /\ result' = "none"
    /\ UNCHANGED <<fsVars, artifact, repo_paths>>

Next ==
    \/ Tick
    \/ \E f \in SourceFiles : TouchSource(f)
    \/ TouchScript
    \/ Call
    \/ RaiseEmpty
    \/ DiscoverUnits
    \/ RaiseMissing
    \/ ReturnFalse
    \/ GoOn
    \/ RaiseNoToolchain
    \/ EnterTmp
    \/ CompileOk
    \/ CompileFail
    \/ LinkOk
    \/ LinkFail
    \/ Exit

Spec == Init /\ [][Next]_vars

\* ==== vocabulary of the claims ============================================
\* what the file system holds, stated without the locals of build_library
RECURSIVE Concat(_)
Concat(ss) == IF ss = <<>> THEN <<>> ELSE Head(ss) \o Concat(Tail(ss))

\* the units the convention gives one module root
ExpectedUnitsOf(m) ==
    IF exists(ScannerCc(m)) THEN <<Parser(m), ScannerCc(m)>>
    ELSE IF exists(ScannerC(m)) THEN <<Parser(m), ScannerC(m)>>
    ELSE <<Parser(m)>>

ExpectedUnits == Concat([i \in 1..Len(repo_paths) |-> ExpectedUnitsOf(repo_paths[i])])

ValidList ==
    /\ repo_paths # <<>>
    /\ \A i \in 1..Len(repo_paths) : exists(Parser(repo_paths[i]))

\* newest modification time over the build script and every unit
NewestInput == Max({script_mtime} \cup {mtime[u] : u \in Range(ExpectedUnits)})

\* the library's modification time, 0 when there is no library
ArtifactTime == IF artifact = Absent THEN 0 ELSE artifact

Building == {"Toolchain", "Compiling", "Linking"}

CompiledSources == [i \in 1..Len(compile_calls) |-> compile_calls[i].source]

\* a full build happened in this run: every unit compiled, one link
FullBuild ==
    /\ CompiledSources = ExpectedUnits
    /\ Len(link_calls) = 1

NoBuildWork == compile_calls = <<>> /\ link_calls = <<>>

\* ==== claims ==============================================================

C2_Idempotent ==
    /\ pc = "Done" => FullBuild
    /\ (since = Clean /\ pc # "Idle") =>
          /\ pc \in {"Discovering", "CheckingStaleness", "UpToDate"}
          /\ NoBuildWork
          /\ pc = "CheckingStaleness" => (ENABLED ReturnFalse) /\ ~(ENABLED GoOn)
          /\ pc = "UpToDate" => result = "False"

\* C2 witness: the second run, inputs unchanged since the build, is UpToDate
C2_Witness ==
    /\ since = Clean
    /\ pc = "UpToDate"
    /\ Len(ExpectedUnits) >= 3
    /\ clock > 0

TouchedUnit == since \in SourceFiles /\ since \in Range(ExpectedUnits)

Prefix(s, t) == Len(s) <= Len(t) /\ \A i \in 1..Len(s) : s[i] = t[i]

\* C4: when the compilation of a unit fails the run ends Failed, the units
\* after the failing one are never compiled and the linker is never invoked.
C4_CompileFailureAborts ==
    result = "CompileError" =>
        /\ pc = "Failed"
        /\ link_calls = <<>>
        /\ Prefix(CompiledSources, ExpectedUnits)
        /\ Len(compile_calls) = Len(object_paths) + 1
        /\ ~ENABLED (CompileOk \/ CompileFail \/ LinkOk \/ LinkFail)

\* C4 witness: the second of three units failed
C4_Witness ==
    /\ result = "CompileError"
    /\ Len(ExpectedUnits) = 3
    /\ Len(compile_calls) = 2

\* C5: the temporary directory and the objects in it exist only inside a
\* build pass; once build_library has returned or raised, on every exit
\* path, neither exists.
C5_TmpReclaimed ==
    /\ pc \in Terminal \cup {"Idle"} => ~out_dir /\ tmp_objects = {}
    /\ (out_dir \/ tmp_objects # {}) => pc \in {"Compiling", "Linking"}
    /\ tmp_objects # {} => out_dir

\* C5 witness: a compile failure after objects had been written
C5_Witness ==
    /\ pc = "Failed"
    /\ result = "CompileError"
    /\ Len(object_paths) >= 2
    /\ ~out_dir

ExpectedObjects == [i \in 1..Len(ExpectedUnits) |-> ObjectOf(ExpectedUnits[i])]

\* C6: in a pass that reaches linking the linker is invoked once, after
\* every discovered unit was compiled once with success, and it receives
\* one object per unit in discovery order.
C6_LinkOnceAfterAll ==
    /\ Len(link_calls) <= 1
    /\ (pc = "Linking" \/ link_calls # <<>>) =>
          /\ CompiledSources = ExpectedUnits
          /\ object_paths = ExpectedObjects
          /\ result # "CompileError"
    /\ link_calls # <<>> =>
          /\ link_calls[1].objects = ExpectedObjects
          /\ pc \in {"Done", "Failed"}
    /\ pc = "Done" => Len(link_calls) = 1

\* C6 witness: two modules with scanners, four objects linked
C6_Witness ==
    /\ pc = "Done"
    /\ Len(link_calls[1].objects) = 4
    /\ link_calls[1].objects[1] # link_calls[1].objects[3]

AnyCppScanner == \E i \in 1..Len(repo_paths) : exists(ScannerCc(repo_paths[i]))

\* C7: the link target is C++ exactly when some module of the list has
\* src/scanner.cc, wherever it is in the list; otherwise it is C.
C7_LinkTarget ==
    \A i \in 1..Len(link_calls) :
        /\ link_calls[i].target_lang = "c++" <=> AnyCppScanner
        /\ link_calls[i].target_lang = "c" <=> ~AnyCppScanner

\* C7 witness: only the first of two modules has a C++ scanner
C7_Witness ==
    /\ link_calls # <<>>
    /\ repo_paths = <<"A", "B">>
    /\ exists(ScannerCc("A"))
    /\ ~exists(ScannerCc("B"))
    /\ link_calls[1].target_lang = "c++"

Discovered == pc \in {"CheckingStaleness", "UpToDate", "Done"} \cup Building

\* the dialect the build gives a unit
Dialect(u) == IF endswith_c(u) THEN "C" ELSE "C++"

\* C8: discovery yields, per module in input order, parser.c (C), then
\* scanner.cc (C++) if it exists, else scanner.c (C) if it exists, else
\* nothing; every module gives one or two units, modules with no scanner
\* give one C unit each and no C++ unit; discovery writes no file.
C8_DiscoveryState ==
    Discovered =>
        /\ source_paths = ExpectedUnits
        /\ Len(source_paths) >= Len(repo_paths)
        /\ Len(source_paths) <= 2 * Len(repo_paths)
        /\ \A i \in 1..Len(source_paths) :
              Dialect(source_paths[i]) = "C++" <=> source_paths[i][2] = "scanner.cc"
        /\ (\A i \in 1..Len(repo_paths) :
                ~exists(ScannerCc(repo_paths[i])) /\ ~exists(ScannerC(repo_paths[i])))
             => /\ source_paths = [i \in 1..Len(repo_paths) |-> Parser(repo_paths[i])]
                /\ ~cpp

\* C8: the discovery result above holds in every state, and the discovery
\* step leaves every file and the temporary directory as they were.
C8_Discovery ==
    /\ []C8_DiscoveryState
    /\ [][pc = "Discovering" =>
             UNCHANGED <<mtime, script_mtime, artifact, out_dir, tmp_objects>>]_vars

\* C8 witness: a module with both scanner forms gave parser.c and scanner.cc
C8_Witness ==
    /\ Discovered
    /\ repo_paths = <<"A", "B">>
    /\ exists(ScannerCc("B")) /\ exists(ScannerC("B"))
    /\ ~exists(ScannerCc("A")) /\ exists(ScannerC("A"))
    /\ Len(source_paths) = 4

\* C9: with an empty module list build_library raises the configuration
\* error before any compiler or linker invocation and before a temporary
\* directory exists, never changes the library, and does so whether or not
\* a library exists.
C9_EmptyState ==
    repo_paths = <<>> =>
        /\ pc \in {"Idle", "Discovering", "Failed"}
        /\ NoBuildWork
        /\ ~out_dir /\ compiler = "unset"
        /\ pc = "Discovering" => (ENABLED RaiseEmpty) /\ ~(ENABLED DiscoverUnits)
        /\ pc = "Failed" => result = "ValueError"

\* C9: the empty-list behaviour above holds in every state, and no step of
\* a run over the empty list changes the library.
C9_EmptyList ==
    /\ []C9_EmptyState
    /\ [][repo_paths = <<>> => artifact' = artifact]_vars

\* C9 witness: the error was raised although a library exists
C9_Witness ==
    /\ repo_paths = <<>>
    /\ pc = "Failed"
    /\ result = "ValueError"
    /\ artifact # Absent

MissingParser == \E i \in 1..Len(repo_paths) : ~exists(Parser(repo_paths[i]))

\* C10: when a module root of the list lacks src/parser.c the run fails
\* with no unit of any module compiled, the linker not invoked and the
\* library unchanged, whether or not the library is newer than the inputs.
C10_MissingState ==
    MissingParser =>
        /\ pc \in {"Idle", "Discovering", "CheckingStaleness", "Failed"}
        /\ NoBuildWork
        /\ ~out_dir
        /\ pc = "CheckingStaleness" =>
              (ENABLED RaiseMissing) /\ ~(ENABLED (ReturnFalse \/ GoOn))
        /\ pc = "Failed" => result = "FileNotFoundError"

\* C10: the missing-parser behaviour above holds in every state, and no
\* step of such a run changes the library.
C10_MissingParser ==
    /\ []C10_MissingState
    /\ [][MissingParser => artifact' = artifact]_vars

\* C10 witness: the first module is complete, the second lacks parser.c,
\* and the library is at least as new as every input that exists
C10_Witness ==
    /\ pc = "Failed"
    /\ result = "FileNotFoundError"
    /\ repo_paths = <<"A", "B">>
    /\ exists(Parser("A")) /\ ~exists(Parser("B"))
    /\ artifact # Absent
    /\ artifact >= script_mtime /\ artifact >= mtime[Parser("A")]

\* C11 as stated: when no library exists and the module list is valid the
\* run is judged stale; build_library returns False only if the library
\* already existed.
C11_AbsentLibraryIsStale ==
    (ValidList /\ pc = "UpToDate") => artifact # Absent

\* C12: after a run that ends Done the library exists and its modification
\* time is at least that of the build script and of every unit, so the
\* comparison of the staleness check reports fresh for these inputs.
C12_DonePostcondition ==
    (pc = "Done" \/ (pc = "Idle" /\ since = Clean)) =>
        /\ artifact # Absent
        /\ artifact >= script_mtime
        /\ \A i \in 1..Len(ExpectedUnits) : artifact >= mtime[ExpectedUnits[i]]
        /\ NewestInput <= artifact

\* C12 witness: a rebuild replaced an older library; one unit is as new as
\* the new library
C12_Witness ==
    /\ pc = "Done"
    /\ output_mtime > 0
    /\ artifact > output_mtime
    /\ \E i \in 1..Len(ExpectedUnits) : mtime[ExpectedUnits[i]] = artifact
    /\ Len(ExpectedUnits) >= 2

\* the state of the orchestrator's state machine a position of the run is
\* in: obtaining the toolchain (lines 74-88) opens the Compiling state
StateOf(p) == IF p = "Toolchain" THEN "Compiling" ELSE p

\* the order of states the state machine allows; a terminal state is left
\* only by the end of the process, never by a further step of the run
ClaimedOrder(a, b) ==
    \/ a = "Idle" /\ b \in {"Idle", "Discovering"}
    \/ a = "Discovering" /\ b \in {"CheckingStaleness", "Failed"}
    \/ a = "CheckingStaleness" /\ b \in {"UpToDate", "Compiling"}
    \/ a = "Compiling" /\ b \in {"Compiling", "Linking", "Failed"}
    \/ a = "Linking" /\ b \in {"Done", "Failed"}
    \/ a \in Terminal /\ b = "Idle"

C14_OnlyLinkWrites ==
    [][/\ artifact' # artifact =>
             /\ pc = "Linking"
             /\ Len(link_calls') = Len(link_calls) + 1
       /\ (pc' \in {"UpToDate", "Failed"} /\ link_calls' = <<>>) =>
             /\ artifact' = artifact
             /\ output_mtime' = (IF artifact' = Absent THEN 0 ELSE artifact')]_vars

\* C14 witness: a compile error in a run that started with a library on
\* disk, which is still there with its old modification time
C14_Witness ==
    /\ pc = "Failed"
    /\ result = "CompileError"
    /\ artifact # Absent
    /\ artifact = output_mtime
    /\ artifact < clock
    /\ link_calls = <<>>

Exceptions == {"ValueError", "FileNotFoundError", "RuntimeError", "CompileError", "LinkError"}

\* C15: build_library returns True exactly when every unit was compiled
\* and the link completed in this invocation, returns False exactly when
\* the run was UpToDate with nothing compiled or linked, and raises in
\* every failed run; a run that has not ended has reported nothing.
C15_Outcomes ==
    /\ result = "True" <=> pc = "Done"
    /\ result = "False" <=> pc = "UpToDate"
    /\ result \in Exceptions <=> pc = "Failed"
    /\ result \in {"True", "False", "none"} \cup Exceptions
    /\ pc \notin Terminal => result = "none"
    /\ pc = "Done" => FullBuild /\ artifact # Absent
    /\ pc = "UpToDate" => NoBuildWork
    /\ pc = "Failed" =>
          \/ link_calls = <<>>
          \/ result = "LinkError"

\* C15 witness: a run that compiled every unit and then failed in the
\* link reports the error, not True
C15_Witness ==
    /\ pc = "Failed"
    /\ result = "LinkError"
    /\ CompiledSources = ExpectedUnits
    /\ Len(link_calls) = 1
    /\ artifact = clock

\* C16: on Windows no extra flag is passed for any unit; elsewhere every
\* unit gets -fPIC and one standard flag, C11 for parser.c and scanner.c,
\* C++11 for scanner.cc, so the C++ flag goes to the units that set the
\* C++ link target and to no other.
C16_FlagSelection ==
    \A i \in 1..Len(compile_calls) :
        LET c == compile_calls[i] IN
        /\ platform \in {"Windows", "Linux"}
        /\ platform = "Windows" => c.extra_preargs = <<>>
        /\ platform # "Windows" =>
              /\ Len(c.extra_preargs) = 2
              /\ c.extra_preargs[1] = "-fPIC"
              /\ c.source[2] \in {"parser.c", "scanner.c"} => c.extra_preargs[2] = "-std=c11"
              /\ c.source[2] = "scanner.cc" => c.extra_preargs[2] = "-std=c++11"
              /\ c.extra_preargs[2] = "-std=c++11" => cpp /\ c.source = ScannerCc(c.source[1])

\* C16 witness: off Windows, a C scanner and a C++ scanner compiled in the
\* same pass with their own standard flags
C16_Witness ==
    /\ platform = "Linux"
    /\ Len(compile_calls) = 4
    /\ compile_calls[2].source = ScannerC("A")
    /\ compile_calls[2].extra_preargs = <<"-fPIC", "-std=c11">>
    /\ compile_calls[4].source = ScannerCc("B")
    /\ compile_calls[4].extra_preargs = <<"-fPIC", "-std=c++11">>

\* C17: when the toolchain cannot be obtained, a run that needs a rebuild
\* fails before any unit is compiled, before the temporary directory is
\* created and without modifying the library.
C17_NoToolchainState ==
    /\ pc = "Toolchain" =>
          /\ ENABLED RaiseNoToolchain
          /\ NoBuildWork /\ ~out_dir /\ tmp_objects = {} /\ compiler = "unset"
          /\ NewestInput > ArtifactTime
    /\ result = "RuntimeError" =>
          /\ pc = "Failed"
          /\ NoBuildWork /\ ~out_dir /\ tmp_objects = {} /\ compiler = "unset"
          /\ object_paths = <<>>
          /\ NewestInput > ArtifactTime
          /\ ArtifactTime = output_mtime

C17_ToolchainUnavailable ==
    /\ []C17_NoToolchainState
    /\ [][result' = "RuntimeError" => artifact' = artifact]_vars

\* C17 witness: the import failed in a run that had to rebuild an existing,
\* older library
C17_Witness ==
    /\ pc = "Failed"
    /\ result = "RuntimeError"
    /\ artifact # Absent
    /\ NewestInput > artifact
    /\ Len(ExpectedUnits) >= 2

\* C18: every compile invocation gets exactly one include directory, the
\* directory of the unit it compiles, so no unit is compiled with another
\* module's source directory on its include path.
C18_IncludeIsolation ==
    \A i \in 1..Len(compile_calls) :
        LET c == compile_calls[i] IN
        /\ Len(c.include_dirs) = 1
        /\ c.include_dirs[1] = <<c.source[1], "src">>
        /\ \A j \in 1..Len(c.include_dirs) :
              \A m \in Modules \ {c.source[1]} : c.include_dirs[j][1] # m

\* C18 witness: units of two modules compiled in one pass, each with its
\* own directory
C18_Witness ==
    /\ Len(compile_calls) >= 3
    /\ compile_calls[1].include_dirs = <<<<"A", "src">>>>
    /\ compile_calls[Len(compile_calls)].include_dirs = <<<<"B", "src">>>>
    /\ compile_calls[Len(compile_calls)].source[2] # "parser.c"

\* C19: a run whose staleness check reports fresh does no build work: the
\* toolchain is not asked for, no temporary directory is created, neither
\* the compiler nor the linker is invoked; the run never gets to the point
\* where an unavailable toolchain would make it fail.
C19_FreshRunDoesNothing ==
    /\ pc = "UpToDate" =>
          /\ compiler = "unset" /\ platform = "unset"
          /\ ~out_dir /\ tmp_objects = {} /\ object_paths = <<>>
          /\ NoBuildWork
          /\ result = "False"
    /\ (pc = "CheckingStaleness" /\ ValidList /\ NewestInput <= ArtifactTime) =>
          /\ ENABLED ReturnFalse
          /\ ~ENABLED (GoOn \/ RaiseNoToolchain \/ EnterTmp \/ RaiseMissing)
          /\ compiler = "unset"

\* C19 witness: an up-to-date run over two modules with scanners
C19_Witness ==
    /\ pc = "UpToDate"
    /\ artifact # Absent
    /\ Len(ExpectedUnits) = 4
    /\ compiler = "unset"
    /\ since = NA

BothScanners(m) == exists(ScannerCc(m)) /\ exists(ScannerC(m))

\* C20: when a module holds both scanner.cc and scanner.c the C++ form
\* wins wherever the module is in the list: discovery gives scanner.cc
\* only and sets the C++ link target, scanner.c is never compiled and not
\* read by the staleness check, so writing only that scanner.c after a
\* successful build causes no rebuild.
C20_CppScannerWins ==
    \A k \in 1..Len(repo_paths) :
        LET m == repo_paths[k] IN
        BothScanners(m) =>
            /\ Discovered =>
                  /\ ScannerCc(m) \in Range(source_paths)
                  /\ ScannerC(m) \notin Range(source_paths)
                  /\ cpp
            /\ \A i \in 1..Len(compile_calls) : compile_calls[i].source # ScannerC(m)
            /\ \A i \in 1..Len(link_calls) : link_calls[i].target_lang = "c++"
            /\ (since = ScannerC(m) /\ pc # "Idle") =>
                  /\ pc \in {"Discovering", "CheckingStaleness", "UpToDate"}
                  /\ NoBuildWork
                  /\ pc = "CheckingStaleness" => (ENABLED ReturnFalse) /\ ~(ENABLED GoOn)

\* C20 witness: the second module holds both forms; its scanner.c was
\* written after the build, is newer than the library, and the run is
\* UpToDate
C20_Witness ==
    /\ repo_paths = <<"A", "B">>
    /\ BothScanners("B")
    /\ since = ScannerC("B")
    /\ mtime[ScannerC("B")] > artifact
    /\ artifact # Absent
    /\ pc = "UpToDate"

====
